---- MODULE Spec2Model ----
(***************************************************************************)
(* A model of pyMPB's kspace.py: the KSpace value object, its three        *)
(* presets, its accessors and its rendering (__str__), together with the   *)
(* caller that owns the lists passed in and the lists handed back.         *)
(*                                                                         *)
(* Python values are modelled as records of one shape,                     *)
(*     [kind, atom, elems]                                                 *)
(* kind = "num": a number (no len()), atom is its printed form;            *)
(* kind = "str": a string (has len() and isalnum), atom is its text;       *)
(* kind = "seq": a tuple or list, elems are its scalar elements.           *)
(* Python lists are TLA+ sequences; a list OBJECT that two names share is  *)
(* a single variable (or field) that both names read and write.            *)
(***************************************************************************)
EXTENDS Integers, Sequences, FiniteSets, TLC

\* ------------------------------------------------------------------ bounds

\* Longest caller-supplied point list.
MaxPoints == 2
\* Longest caller-supplied point item (a tuple of that many entries).
MaxItemLen == 4
\* Longest caller-supplied label list.
MaxLabels == 3
\* Largest k_interpolation passed by a caller.
MaxK == 3
\* Largest x_steps / y_steps of the grid preset.
MaxSteps == 3
\* How many in-place edits a caller makes to a list it got from points().
MaxEdits == 1

\* ------------------------------------------------------- external settings

\* defaults.default_k_interpolation (module defaults is not part of the file)
default_k_interpolation == 3
\* defaults.k_interpolation_function
k_interpolation_function == "interpolate"
\* defaults.k_uniform_interpolation_function
k_uniform_interpolation_function == "kinterpolate-uniform"

\* ------------------------------------------------------------ Python values

Num(a) == [kind |-> "num", atom |-> a, elems |-> <<>>]
PyStr(a) == [kind |-> "str", atom |-> a, elems |-> <<>>]
PySeq(es) == [kind |-> "seq", atom |-> "", elems |-> es]

\* The integer literal 0 and the float literal 0.0 of the source.
Zero == Num("0")
ZeroFloat == Num("0.0")

\* The scalars callers put into points: two numbers and a symbolic string.
ScalarA == Num("0.5")
ScalarB == PyStr("(/ 3)")
ScalarC == Num("1")
ScalarCycle == <<ScalarA, ScalarB, ScalarC>>

\* A tuple of n scalars, all positions distinguishable from their neighbours.
TupleOfLen(n) == PySeq([i \in 1..n |-> ScalarCycle[((i - 1) % 3) + 1]])

\* Every kind of item a caller passes: numbers, a string, tuples of each length.
ItemCatalogue ==
    <<ScalarA, ScalarB>> \o [n \in 1..(MaxItemLen + 1) |-> TupleOfLen(n - 1)]

\* The point lists callers pass: every run of at most MaxPoints consecutive
\* catalogue items (the empty list among them).
PointListInputs ==
    LET n == Len(ItemCatalogue)
        runs == {SubSeq(ItemCatalogue, i, j) : i \in 1..n, j \in 0..n}
    IN {r \in runs : Len(r) <= MaxPoints}

\* The label lists callers own.
LabelCycle == <<"Gamma", "M", "", "K">>
LabelsOfLen(n) == [i \in 1..n |-> LabelCycle[((i - 1) % 4) + 1]]
LabelInputs == {LabelsOfLen(n) : n \in 0..MaxLabels}

\* The interpolation counts callers pass: nothing checks them.
KInputs == {-1, 0, MaxK}

\* ---------------------------------------------------------------- variables

VARIABLES
    newmpb,          \* defaults.newmpb, the capability flag
    default_labels,  \* the list object built once by the default point_labels=list()
    caller_labels,   \* the list object the caller passes as point_labels
    self,            \* the KSpace object (its __dict__), alive once constructed
    args,            \* the arguments of the constructor call that built self
    log,             \* the warnings log.warning received during that call
    held,            \* the caller holds the list object points() returned
    edits,           \* in-place edits the caller made to that list
    ret              \* the last call and what it returned

vars == <<newmpb, default_labels, caller_labels, self, args, log, held, edits, ret>>

\* ------------------------------------------------- KSpace.__init__, points

\* The length the constructor works with (kspace.py 64-73): len(item), but 0 for
\* a number (len() raises TypeError) and for a string (it has isalnum).
EffectiveLength(item) ==
    IF item.kind = "num"
    THEN 0                          \* except TypeError: length = 0
    ELSE IF item.kind = "str"
    THEN 0                          \* hasattr(item, 'isalnum'): length = 0
    ELSE Len(item.elems)

\* item[i] with Python's 0-based index: an entry of a tuple.
Entry(item, i) == item.elems[i + 1]

\* The 3-tuple appended for one item (kspace.py 74-83).
\* (ThreeTupleSwapped: the entries of a pair taken in the wrong order.)
ThreeTupleSwapped(item) ==
    LET length == EffectiveLength(item)
    IN IF length = 0 THEN <<item, Zero, Zero>>
       ELSE IF length = 1 THEN <<Entry(item, 0), Zero, Zero>>
       ELSE IF length = 2 THEN <<Entry(item, 1), Entry(item, 0), Zero>>
       ELSE IF length = 3 THEN item.elems
       ELSE SubSeq(item.elems, 1, 3)

ThreeTuple(item) ==
    LET length == EffectiveLength(item)
    IN IF length = 0 THEN <<item, Zero, Zero>>
       ELSE IF length = 1 THEN <<Entry(item, 0), Zero, Zero>>
       ELSE IF length = 2 THEN <<Entry(item, 0), Entry(item, 1), Zero>>
       ELSE IF length = 3 THEN item.elems               \* tuple(item)
       ELSE SubSeq(item.elems, 1, 3)                    \* tuple(item[0:3])

\* Whether the loop body warns for this item (kspace.py 82-86).
WarnsOnItem(item) == EffectiveLength(item) > 3

TruncationWarning == "KSpace: a point has been supplied with length > 3."
FallbackWarning == "Requested kinterpolate_uniform function in KSpace"

\* The loop over points_list (kspace.py 62-86): the list built ...
RECURSIVE ThreeList(_)
ThreeList(points_list) ==
    IF points_list = <<>> THEN <<>>
    ELSE <<ThreeTuple(Head(points_list))>> \o ThreeList(Tail(points_list))

\* ... and the warnings logged on the way.
RECURSIVE LoopWarnings(_)
LoopWarnings(points_list) ==
    IF points_list = <<>> THEN <<>>
    ELSE (IF WarnsOnItem(Head(points_list)) THEN <<TruncationWarning>> ELSE <<>>)
         \o LoopWarnings(Tail(points_list))

\* ------------------------------------------------- KSpace.__init__, labels

\* [''] * n
EmptyLabels(n) == [i \in 1..n |-> ""]

\* What the list object passed as point_labels holds after lines 89-92:
\* extend() changes that object in place.
PassedLabelsAfter(point_labels, n) ==
    LET pllen == Len(point_labels)
    IN IF pllen # 0 /\ pllen < n
       THEN point_labels \o EmptyLabels(n - pllen)
       ELSE point_labels

\* seq[:n]
Slice(seq, n) == IF n >= Len(seq) THEN seq ELSE SubSeq(seq, 1, n)

\* The local copy stored in self.point_labels (kspace.py 93-94).
\* (StoredLabelsUncut: the slice forgotten; StoredLabelsUnpadded: the padding
\* forgotten.)
StoredLabelsUncut(point_labels, n) == PassedLabelsAfter(point_labels, n)

StoredLabelsUnpadded(point_labels, n) == Slice(point_labels, n)

StoredLabels(point_labels, n) == Slice(PassedLabelsAfter(point_labels, n), n)

\* ---------------------------------------- KSpace.__init__, interpolation

\* self.use_uniform_interpolation after lines 97-102.
\* (StoredUniformUnchecked: the capability test forgotten.)
StoredUniformUnchecked(use_uniform_interpolation, capable) ==
    use_uniform_interpolation

StoredUniform(use_uniform_interpolation, capable) ==
    IF use_uniform_interpolation /\ ~capable THEN FALSE
    ELSE use_uniform_interpolation

FallbackWarnings(use_uniform_interpolation, capable) ==
    IF use_uniform_interpolation /\ ~capable THEN <<FallbackWarning>> ELSE <<>>

\* self.k_interpolation after line 96: whatever was passed.
StoredK(k_interpolation) == k_interpolation

\* self.__dict__.update(kwargs): kwargs is a set of <<name, value>> pairs.
NoKwargs == {}

\* The object the constructor leaves behind (kspace.py 96-105).
NewKSpace(points_list, k_interpolation, use_uniform_interpolation, point_labels, kwargs, capable) ==
    LET three_list == ThreeList(points_list)
    IN [alive |-> TRUE,
        k_interpolation |-> StoredK(k_interpolation),
        use_uniform_interpolation |->
            StoredUniform(use_uniform_interpolation, capable),
        points_list |-> three_list,
        point_labels |-> StoredLabels(point_labels, Len(three_list)),
        extra |-> kwargs]

\* Everything log.warning received during the constructor, in order.
ConstructorWarnings(points_list, use_uniform_interpolation, capable) ==
    LoopWarnings(points_list)
    \o FallbackWarnings(use_uniform_interpolation, capable)

\* No object yet.
NoKSpace ==
    [alive |-> FALSE, k_interpolation |-> 0, use_uniform_interpolation |-> FALSE,
     points_list |-> <<>>, point_labels |-> <<>>, extra |-> NoKwargs]

NoArgs ==
    [cls |-> "none", points_list |-> <<>>, k_interpolation |-> 0,
     use_uniform_interpolation |-> FALSE, labels_from |-> "default",
     point_labels |-> <<>>, x_steps |-> 0, y_steps |-> 0]

\* ------------------------------------------------------------- accessors

\* KSpace.points: the list object itself, not a copy.
points(obj) == obj.points_list

\* KSpace.has_labels: the truth value of `len(labels) and len(points) == len(labels)`
\* (Python's `and` gives 0, which is false, for an empty label list).
has_labels(obj) ==
    Len(obj.point_labels) # 0 /\ Len(points(obj)) = Len(obj.point_labels)

\* KSpace.labels: a copy (point_labels[:]) or a new empty list.
labels(obj) == IF has_labels(obj) THEN obj.point_labels ELSE <<>>

\* KSpace.count_interpolated
\* (count_interpolatedPerPoint: one interval counted per point.)
count_interpolatedPerPoint(obj) ==
    Len(points(obj)) * (obj.k_interpolation + 1) + 1

count_interpolated(obj) ==
    (Len(points(obj)) - 1) * (obj.k_interpolation + 1) + 1

\* getattr(obj, name) for a name that came in through kwargs.
HasAttr(obj, name) == \E kv \in obj.extra : kv[1] = name
GetAttr(obj, name) == (CHOOSE kv \in obj.extra : kv[1] = name)[2]

\* ---------------------------------------------------------------- __str__

RECURSIVE Join(_, _)
Join(texts, sep) ==
    IF texts = <<>> THEN ""
    ELSE IF Len(texts) = 1 THEN texts[1]
    ELSE texts[1] \o sep \o Join(Tail(texts), sep)

\* '%s' % value
Format(value) ==
    IF value.kind = "seq"
    THEN "(" \o Join([i \in 1..Len(value.elems) |-> value.elems[i].atom], ", ") \o ")"
    ELSE value.atom

\* '    (vector3 %s %s %s)\n' % (x, y, z)
Vector3(xyz) ==
    "    (vector3 " \o Format(xyz[1]) \o " " \o Format(xyz[2]) \o " "
    \o Format(xyz[3]) \o ")\n"

\* '    (vector3 %s %s %s)%s\n' % (x, y, z, comment)
Vector3Commented(xyz, comment) ==
    "    (vector3 " \o Format(xyz[1]) \o " " \o Format(xyz[2]) \o " "
    \o Format(xyz[3]) \o ")" \o comment \o "\n"

\* ''.join(...)
RECURSIVE Concat(_)
Concat(texts) == IF texts = <<>> THEN "" ELSE Head(texts) \o Concat(Tail(texts))

\* comments = ['  ;' + pl if pl else pl for pl in self.point_labels]
Comments(point_labels) ==
    [i \in 1..Len(point_labels) |->
        IF point_labels[i] # "" THEN "  ;" \o point_labels[i] ELSE point_labels[i]]

\* comments[i] for every point: an IndexError once the points outnumber the labels.
StrRaises(obj) ==
    obj.point_labels # <<>> /\ Len(points(obj)) > Len(obj.point_labels)

\* The vectors text (kspace.py 110-118), when nothing is raised.
Vectors(obj) ==
    IF obj.point_labels # <<>>
    THEN Concat([i \in 1..Len(points(obj)) |->
                    Vector3Commented(points(obj)[i], Comments(obj.point_labels)[i])])
    ELSE Concat([i \in 1..Len(points(obj)) |-> Vector3(points(obj)[i])])

\* kspace.py 120-123
InterpolFunc(obj) ==
    IF obj.use_uniform_interpolation
    THEN k_uniform_interpolation_function
    ELSE k_interpolation_function

\* kspace.py 125-131
Str(obj) ==
    IF obj.k_interpolation # 0
    THEN "(" \o InterpolFunc(obj) \o " " \o ToString(obj.k_interpolation)
         \o " (list\n" \o Vectors(obj) \o "))"
    ELSE "(list\n" \o Vectors(obj) \o ")"

\* ---------------------------------------------------------------- presets

TriangularPoints ==
    << PySeq(<<Zero, Zero, Zero>>),
       PySeq(<<Zero, Num("0.5"), Zero>>),
       PySeq(<<PyStr("(/ -3)"), PyStr("(/ 3)"), Zero>>),
       PySeq(<<Zero, Zero, Zero>>) >>
TriangularLabels == <<"Gamma", "M", "K", "Gamma">>

RectangularPoints ==
    << PySeq(<<Zero, Zero, Zero>>),
       PySeq(<<Num("0.5"), Zero, Zero>>),
       PySeq(<<Num("0.5"), Num("0.5"), Zero>>),
       PySeq(<<Zero, Zero, Zero>>) >>
RectangularLabels == <<"Gamma", "X", "M", "Gamma">>

\* numpy.linspace(-0.5, 0.5, num): num evenly spaced samples, both ends included;
\* a single sample is the start.  Sample i (from 0) is (2i - (num-1)) / (2(num-1)),
\* kept as an exact fraction in lowest terms.
RECURSIVE Gcd(_, _)
Gcd(a, b) == IF b = 0 THEN a ELSE Gcd(b, a % b)
Abs(a) == IF a < 0 THEN -a ELSE a

Fraction(n, d) ==
    LET g == Gcd(Abs(n), d)
    IN Num(ToString(n \div g) \o "/" \o ToString(d \div g))

Linspace(num) ==
    [i \in 1..num |->
        IF num = 1 THEN Fraction(-1, 2)
        ELSE Fraction(2 * (i - 1) - (num - 1), 2 * (num - 1))]

\* grid = [(x, y, 0.0) for y in linspace(.., y_steps) for x in linspace(.., x_steps)]
\* (GridXOuter: the two loops exchanged.)
GridXOuter(x_steps, y_steps) ==
    [i \in 1..(x_steps * y_steps) |->
        PySeq(<<Linspace(x_steps)[((i - 1) \div y_steps) + 1],
                Linspace(y_steps)[((i - 1) % y_steps) + 1],
                ZeroFloat>>)]

Grid(x_steps, y_steps) ==
    [i \in 1..(x_steps * y_steps) |->
        PySeq(<<Linspace(x_steps)[((i - 1) % x_steps) + 1],
                Linspace(y_steps)[((i - 1) \div x_steps) + 1],
                ZeroFloat>>)]

GridKwargs(x_steps, y_steps) == {<<"x_steps", x_steps>>, <<"y_steps", y_steps>>}

\* ------------------------------------------------------------ the calls

\* What a call handed back: one record shape for every call.
NoRet ==
    [op |-> "none", pts |-> <<>>, lbls |-> <<>>, int |-> 0, bool |-> FALSE,
     text |-> "", raised |-> ""]

Init ==
    /\ newmpb \in BOOLEAN
    /\ default_labels = <<>>
    /\ caller_labels = <<>>
    /\ self = NoKSpace
    /\ args = NoArgs
    /\ log = <<>>
    /\ held = FALSE
    /\ edits = 0
    /\ ret = NoRet

\* KSpace.__init__(self, points_list, k_interpolation, use_uniform_interpolation,
\* point_labels, **kwargs), with point_labels the caller's list object
\* (labels_from = "caller"), the shared default list ("default") or a list
\* written in the call ("literal").  One object is followed at a time: the
\* constructor runs when the caller holds none.
KSpaceInit(cls, points_list, k_interpolation, use_uniform_interpolation, labels_from, literal, kwargs, x_steps, y_steps) ==
    LET passed == IF labels_from = "caller" THEN caller_labels
                  ELSE IF labels_from = "default" THEN default_labels
                  ELSE literal
        n == Len(ThreeList(points_list))
    IN /\ ~self.alive
       /\ self' = NewKSpace(points_list, k_interpolation,
                            use_uniform_interpolation, passed, kwargs, newmpb)
       /\ caller_labels' = IF labels_from = "caller"
                           THEN PassedLabelsAfter(passed, n) ELSE caller_labels
       /\ default_labels' = IF labels_from = "default"
                            THEN PassedLabelsAfter(passed, n) ELSE default_labels
       /\ log' = ConstructorWarnings(points_list, use_uniform_interpolation, newmpb)
       /\ args' = [cls |-> cls, points_list |-> points_list,
                   k_interpolation |-> k_interpolation,
                   use_uniform_interpolation |-> use_uniform_interpolation,
                   labels_from |-> labels_from, point_labels |-> passed,
                   x_steps |-> x_steps, y_steps |-> y_steps]
       /\ held' = FALSE
       /\ edits' = 0
       /\ ret' = [NoRet EXCEPT !.op = "__init__"]
       /\ UNCHANGED newmpb

\* KSpace(points_list, k, uniform, point_labels=<the caller's list>)
NewWithLabels ==
    \E pl \in PointListInputs, k \in KInputs, u \in BOOLEAN :
        KSpaceInit("KSpace", pl, k, u, "caller", <<>>, NoKwargs, 0, 0)

\* KSpace(points_list, k, uniform): point_labels left to its default
NewWithoutLabels ==
    \E pl \in PointListInputs, k \in KInputs, u \in BOOLEAN :
        KSpaceInit("KSpace", pl, k, u, "default", <<>>, NoKwargs, 0, 0)

\* KSpaceTriangular(k, uniform)
NewTriangular ==
    \E k \in KInputs \cup {default_k_interpolation}, u \in BOOLEAN :
        KSpaceInit("KSpaceTriangular", TriangularPoints, k, u, "literal",
                   TriangularLabels, NoKwargs, 0, 0)

\* KSpaceRectangular(k, uniform)
NewRectangular ==
    \E k \in KInputs \cup {default_k_interpolation}, u \in BOOLEAN :
        KSpaceInit("KSpaceRectangular", RectangularPoints, k, u, "literal",
                   RectangularLabels, NoKwargs, 0, 0)

\* KSpaceRectangularGrid(x_steps, y_steps)
NewRectangularGrid ==
    \E x_steps \in 0..MaxSteps, y_steps \in 0..MaxSteps :
        KSpaceInit("KSpaceRectangularGrid", Grid(x_steps, y_steps), 0, FALSE,
                   "default", <<>>, GridKwargs(x_steps, y_steps), x_steps, y_steps)

Quiet == UNCHANGED <<newmpb, default_labels, caller_labels, self, args, log, edits>>

\* obj.points(): the caller now holds the object's own list.
CallPoints ==
    /\ self.alive
    /\ ret' = [NoRet EXCEPT !.op = "points", !.pts = points(self)]
    /\ held' = TRUE
    /\ Quiet

CallLabels ==
    /\ self.alive
    /\ ret' = [NoRet EXCEPT !.op = "labels", !.lbls = labels(self)]
    /\ UNCHANGED held
    /\ Quiet

CallHasLabels ==
    /\ self.alive
    /\ ret' = [NoRet EXCEPT !.op = "has_labels", !.bool = has_labels(self)]
    /\ UNCHANGED held
    /\ Quiet

CallCountInterpolated ==
    /\ self.alive
    /\ ret' = [NoRet EXCEPT !.op = "count_interpolated",
                            !.int = count_interpolated(self)]
    /\ UNCHANGED held
    /\ Quiet

\* str(obj)
CallStr ==
    /\ self.alive
    /\ ret' = IF StrRaises(self)
              THEN [NoRet EXCEPT !.op = "__str__", !.raised = "IndexError"]
              ELSE [NoRet EXCEPT !.op = "__str__", !.text = Str(self)]
    /\ UNCHANGED held
    /\ Quiet

\* The caller changes the list it got from points() in place: pop() or
\* append((0, 0, 0)).  That list is self.points_list.
CallerEditsPoints ==
    /\ self.alive
    /\ held
    /\ edits < MaxEdits
    /\ \/ /\ self.points_list # <<>>
          /\ self' = [self EXCEPT !.points_list =
                         SubSeq(self.points_list, 1, Len(self.points_list) - 1)]
       \/ self' = [self EXCEPT !.points_list =
                      Append(self.points_list, <<Zero, Zero, Zero>>)]
    /\ edits' = edits + 1
    /\ ret' = [NoRet EXCEPT !.op = "caller edits points()"]
    /\ UNCHANGED <<newmpb, default_labels, caller_labels, args, log, held>>

\* The caller changes the list it got from labels(): that list is a copy.
CallerEditsLabels ==
    /\ ret.op = "labels"
    /\ ret' = [ret EXCEPT !.op = "caller edits labels()",
                          !.lbls = Append(ret.lbls, "edited")]
    /\ UNCHANGED held
    /\ Quiet

\* The caller drops the object (and the list it got from points()); the next
\* constructor call builds another one.
CallerDropsObject ==
    /\ self.alive
    /\ self' = NoKSpace
    /\ args' = NoArgs
    /\ log' = <<>>
    /\ held' = FALSE
    /\ edits' = 0
    /\ ret' = NoRet
    /\ UNCHANGED <<newmpb, default_labels, caller_labels>>

\* The caller rewrites its own label list between calls.
CallerSetsLabels ==
    /\ \E new \in LabelInputs : caller_labels' = new
    /\ UNCHANGED <<newmpb, default_labels, self, args, log, held, edits, ret>>

Next ==
    \/ NewWithLabels
    \/ NewWithoutLabels
    \/ NewTriangular
    \/ NewRectangular
    \/ NewRectangularGrid
    \/ CallPoints
    \/ CallLabels
    \/ CallHasLabels
    \/ CallCountInterpolated
    \/ CallStr
    \/ CallerEditsPoints
    \/ CallerEditsLabels
    \/ CallerSetsLabels
    \/ CallerDropsObject

Spec == Init /\ [][Next]_vars

\* ================================================================= claims

\* The state a constructor call leaves: nothing has been called since.
JustConstructed == self.alive /\ ret.op = "__init__"

\* No caller has edited the list points() handed out.
Unedited == self.alive /\ edits = 0

IsSequence(item) == item.kind = "seq"

\* ----------------------------------------------------------------------- C1
\* What the claim says the stored tuple of an item is.
C1_Expected(item) ==
    IF ~IsSequence(item) THEN <<item, Zero, Zero>>
    ELSE IF Len(item.elems) = 1 THEN <<item.elems[1], Zero, Zero>>
    ELSE IF Len(item.elems) = 2 THEN <<item.elems[1], item.elems[2], Zero>>
    ELSE <<item.elems[1], item.elems[2], item.elems[3]>>

C1_OverLength(item) == IsSequence(item) /\ Len(item.elems) > 3

\* C1: after KSpace(points_list, ...) the stored list has one entry per input
\* item, in the same order; every entry has exactly 3 components; a number or a
\* string gives (item, 0, 0), a tuple of 1, 2, 3 or more entries gives its first
\* entries filled up with 0 or cut to 3; and log.warning received one truncation
\* warning per item of more than 3 entries and none for any other item.
C1_Normalization ==
    JustConstructed =>
        /\ Len(self.points_list) = Len(args.points_list)
        /\ \A i \in 1..Len(args.points_list) :
              /\ Len(self.points_list[i]) = 3
              /\ (~IsSequence(args.points_list[i])
                    \/ Len(args.points_list[i].elems) >= 1)
                 => self.points_list[i] = C1_Expected(args.points_list[i])
        /\ Len(SelectSeq(log, LAMBDA w : w = TruncationWarning))
             = Cardinality({i \in 1..Len(args.points_list) :
                               C1_OverLength(args.points_list[i])})

\* A list holding a tuple of more than 3 entries next to a shorter one was normalized.
C1_Witness ==
    /\ JustConstructed
    /\ Len(args.points_list) = 2
    /\ \E i \in 1..2 : C1_OverLength(args.points_list[i])
    /\ \E i \in 1..2 : IsSequence(args.points_list[i])
                       /\ Len(args.points_list[i].elems) = 3
    /\ log = <<TruncationWarning>>

\* ----------------------------------------------------------------------- C2
\* C2 as stated: has_labels() is false whenever the number of labels passed to
\* the constructor differs from the number of points.
C2_Original ==
    (ret.op = "has_labels" /\ Unedited
        /\ Len(args.point_labels) # Len(self.points_list))
    => ~ret.bool

\* C2 amended: has_labels() is false whenever the number of labels the
\* constructor STORED differs from the number of points; on an object whose
\* point list no caller edited it is true exactly when a non-empty label list
\* was passed and there is at least one point, whatever the passed list's length.
C2_Amended ==
    ret.op = "has_labels" =>
        /\ Len(self.point_labels) # Len(self.points_list) => ~ret.bool
        /\ Unedited =>
              (ret.bool <=> (args.point_labels # <<>> /\ args.points_list # <<>>))

\* has_labels() answered true for a label list shorter than the point list.
C2_Witness ==
    /\ ret.op = "has_labels"
    /\ Unedited
    /\ ret.bool
    /\ Len(args.point_labels) < Len(args.points_list)

\* ----------------------------------------------------------------------- C3
\* C3: after construction the stored label list is empty or as long as the
\* stored point list; a non-empty passed list shorter than the points is stored
\* followed by empty strings, a longer one is stored cut to its first
\* len(points) entries; the stored list is never longer than the point list.
C3_LabelReconciliation ==
    JustConstructed =>
        LET n == Len(self.points_list)
            given == args.point_labels
        IN /\ self.point_labels = <<>> \/ Len(self.point_labels) = n
           /\ Len(self.point_labels) <= n
           /\ (given # <<>> /\ Len(given) < n) =>
                 /\ SubSeq(self.point_labels, 1, Len(given)) = given
                 /\ \A i \in (Len(given) + 1)..n : self.point_labels[i] = ""
           /\ Len(given) > n => self.point_labels = SubSeq(given, 1, n)
           /\ Len(given) = n => self.point_labels = given

\* A label list shorter than the points was passed and padded.
C3_Witness ==
    /\ JustConstructed
    /\ args.point_labels # <<>>
    /\ Len(args.point_labels) < Len(self.points_list)
    /\ self.point_labels[Len(self.points_list)] = ""

\* ----------------------------------------------------------------------- C4
\* C4: every call to points() returns the point list as normalized at
\* construction, whatever the caller did with earlier return values.
C4_PointsNeverChange ==
    ret.op = "points" => ret.pts = ThreeList(args.points_list)

\* ----------------------------------------------------------------------- C5
\* The text the claim describes: one vector3 line per point, a comment on a line
\* iff the path has labels and that point's label is not empty, the list wrapped
\* in the interpolation call iff the count is not zero.
C5_Line(obj, i) ==
    "    (vector3 " \o Format(obj.points_list[i][1]) \o " "
    \o Format(obj.points_list[i][2]) \o " " \o Format(obj.points_list[i][3]) \o ")"
    \o (IF has_labels(obj) /\ obj.point_labels[i] # ""
        THEN "  ;" \o obj.point_labels[i] ELSE "")
    \o "\n"

C5_List(obj) ==
    "(list\n" \o Concat([i \in 1..Len(obj.points_list) |-> C5_Line(obj, i)]) \o ")"

C5_Text(obj) ==
    IF obj.k_interpolation = 0 THEN C5_List(obj)
    ELSE "(" \o (IF obj.use_uniform_interpolation
                 THEN k_uniform_interpolation_function
                 ELSE k_interpolation_function)
         \o " " \o ToString(obj.k_interpolation) \o " " \o C5_List(obj) \o ")"

\* C5: str(obj) is that text.
C5_Rendering ==
    ret.op = "__str__" => (ret.raised = "" /\ ret.text = C5_Text(self))

\* The same on paths whose point list no caller edited through points(): there
\* the rendered text is the claimed one.
C5_RenderingUnedited ==
    (ret.op = "__str__" /\ Unedited) => (ret.raised = "" /\ ret.text = C5_Text(self))

\* ----------------------------------------------------------------------- C6
HasFallbackWarning == \E i \in 1..Len(log) : log[i] = FallbackWarning

\* C6: when uniform interpolation is requested and defaults.newmpb is false the
\* object is built, its flag is false, the fallback warning is logged and str()
\* uses the simple function name; in every other case the flag is the requested
\* one and no fallback warning is logged.  So a true flag implies newmpb.
C6_UniformFallback ==
    self.alive =>
        /\ (args.use_uniform_interpolation /\ ~newmpb) =>
              /\ self.use_uniform_interpolation = FALSE
              /\ HasFallbackWarning
              /\ (ret.op = "__str__" /\ ret.raised = "" /\ self.k_interpolation # 0)
                 => ret.text = "(" \o k_interpolation_function \o " "
                               \o ToString(self.k_interpolation)
                               \o " (list\n" \o Vectors(self) \o "))"
        /\ ~(args.use_uniform_interpolation /\ ~newmpb) =>
              /\ self.use_uniform_interpolation = args.use_uniform_interpolation
              /\ ~HasFallbackWarning
        /\ self.use_uniform_interpolation => newmpb

\* A path that asked for uniform interpolation without the capability was rendered.
C6_Witness ==
    /\ self.alive
    /\ args.use_uniform_interpolation
    /\ ~newmpb
    /\ self.k_interpolation > 0
    /\ ret.op = "__str__"
    /\ ret.raised = ""

\* ----------------------------------------------------------------------- C7
\* The canonical points with k placeholders between each consecutive pair.
RECURSIVE C7_Expanded(_, _)
C7_Expanded(pts, k) ==
    IF Len(pts) <= 1 THEN pts
    ELSE <<Head(pts)>> \o [i \in 1..k |-> <<Zero, Zero, Zero>>]
         \o C7_Expanded(Tail(pts), k)

\* C7: with at least one point and k >= 0, count_interpolated() is
\* (len(points) - 1) * (k + 1) + 1, the length of the expanded sequence: 13 for
\* 4 points and k = 3, the point count for k = 0 or a single point.
C7_CountInterpolated ==
    (ret.op = "count_interpolated" /\ Len(self.points_list) >= 1
        /\ self.k_interpolation >= 0)
    => LET n == Len(self.points_list)
           k == self.k_interpolation
       IN /\ ret.int = (n - 1) * (k + 1) + 1
          /\ ret.int = Len(C7_Expanded(self.points_list, k))
          /\ (n = 4 /\ k = 3) => ret.int = 13
          /\ (k = 0 \/ n = 1) => ret.int = n

\* count_interpolated() was called on 4 points with k = 3.
C7_Witness ==
    /\ ret.op = "count_interpolated"
    /\ Len(self.points_list) = 4
    /\ self.k_interpolation = 3
    /\ ret.int = 13

\* ----------------------------------------------------------------------- C8
IsGrid == self.alive /\ args.cls = "KSpaceRectangularGrid"

\* C8: KSpaceRectangularGrid(x_steps, y_steps) holds x_steps * y_steps points
\* with third component 0.0, point i (from 0) carrying x sample i mod x_steps and
\* y sample i div x_steps; its interpolation count is 0, it has no labels, it
\* renders as an unwrapped list, count_interpolated() is x_steps * y_steps and
\* x_steps and y_steps are attributes with the values passed.
C8_RectangularGrid ==
    (IsGrid /\ Unedited) =>
        LET xs == args.x_steps
            ys == args.y_steps
            pts == self.points_list
        IN /\ Len(pts) = xs * ys
           /\ \A i \in 0..(xs * ys - 1) :
                 /\ pts[i + 1][1] = Linspace(xs)[(i % xs) + 1]
                 /\ pts[i + 1][2] = Linspace(ys)[(i \div xs) + 1]
                 /\ pts[i + 1][3] = ZeroFloat
           /\ (xs = 3 /\ ys = 2) =>
                 /\ [i \in 1..6 |-> pts[i][1].atom]
                      = <<"-1/2", "0/1", "1/2", "-1/2", "0/1", "1/2">>
                 /\ [i \in 1..6 |-> pts[i][2].atom]
                      = <<"-1/2", "-1/2", "-1/2", "1/2", "1/2", "1/2">>
           /\ self.k_interpolation = 0
           /\ ~has_labels(self)
           /\ ret.op = "has_labels" => ~ret.bool
           /\ ret.op = "labels" => ret.lbls = <<>>
           /\ ret.op = "__str__" =>
                 ret.text = "(list\n"
                            \o Concat([i \in 1..Len(pts) |-> Vector3(pts[i])]) \o ")"
           /\ count_interpolated(self) = xs * ys
           /\ ret.op = "count_interpolated" => ret.int = xs * ys
           /\ HasAttr(self, "x_steps") /\ GetAttr(self, "x_steps") = xs
           /\ HasAttr(self, "y_steps") /\ GetAttr(self, "y_steps") = ys

\* The 3 by 2 grid was built and rendered.
C8_Witness ==
    /\ IsGrid
    /\ Unedited
    /\ args.x_steps = 3
    /\ args.y_steps = 2
    /\ Len(self.points_list) = 6
    /\ ret.op = "__str__"

\* ----------------------------------------------------------------------- C9
\* C9: the stored interpolation count of every constructed path is >= 0.
C9_NonNegativeK ==
    self.alive => self.k_interpolation >= 0

\* ---------------------------------------------------------------------- C10
\* C10: a constructor call leaves the list object passed as point_labels (the
\* caller's, or the shared default) with the contents it had before the call.
C10_LabelsUntouched ==
    [][(~self.alive /\ self'.alive)
        => (caller_labels' = caller_labels /\ default_labels' = default_labels)]_vars

====
